---------------------------- MODULE Spec2Model ----------------------------
(***************************************************************************)
(* Player clustering service: the offline training script (train.py) that  *)
(* writes the artifact files, and the Flask serving process (api3.py, of   *)
(* which api.py, api1.py and api2.py are earlier copies) that loads them   *)
(* once at import and then answers requests.                               *)
(*                                                                         *)
(* Conventions of the model                                                *)
(*  - A JSON value is a record tagged by its type: [t |-> "num", v |-> 3], *)
(*    [t |-> "list", v |-> <<...>>], [t |-> "str", v |-> ...],             *)
(*    [t |-> "null"]; a key that is not in the object is [t |-> "absent"]. *)
(*  - A category label (a Python str that is iterated, hashed and sorted)  *)
(*    is the sequence of its character codes, so that sorting a vocabulary *)
(*    and iterating a str character by character are what Python does.     *)
(*  - A call that may raise returns [ok |-> FALSE, err |-> <exception>] or *)
(*    [ok |-> TRUE, v |-> <value>].                                        *)
(*  - Reals are exact rationals: a scaled vector keeps, per dimension, the *)
(*    numerator x - mean and the denominator scale.                        *)
(*  - produced is a history variable: the bundle of every training run so  *)
(*    far, in order; no code reads it.                                     *)
(***************************************************************************)
EXTENDS Integers, Sequences, FiniteSets, TLC

(***************************************************************************)
(* Bounds of the model.                                                    *)
(***************************************************************************)
\* training runs after the one that produced the initial files
MaxRuns == 1
\* POST /players requests accepted over the life of the serving process
MaxPlayers == 2
\* request threads of the serving process that may run at the same time
MaxThreads == 2

(***************************************************************************)
(* Program constants.                                                      *)
(***************************************************************************)
n_clusters == 4
head_limit == 5

levels_map ==
    [l \in {"beginner", "recreational", "high school player",
            "college player", "tournament player", "professional"} |->
        CASE l = "beginner" -> 1
          [] l = "recreational" -> 2
          [] l = "high school player" -> 3
          [] l = "college player" -> 4
          [] l = "tournament player" -> 5
          [] l = "professional" -> 6]

(***************************************************************************)
(* JSON values.                                                            *)
(***************************************************************************)
Absent == [t |-> "absent"]
JNull == [t |-> "null"]
JNum(n) == [t |-> "num", v |-> n]
JStr(s) == [t |-> "str", v |-> s]
JList(l) == [t |-> "list", v |-> l]

Ok(x) == [ok |-> TRUE, v |-> x]
Raise(e) == [ok |-> FALSE, err |-> e]

\* d[key]: KeyError when the key is not in the object
GetItem(d, key) == IF d[key].t = "absent" THEN Raise("KeyError") ELSE Ok(d[key])

\* d.get(key, default): the default only when the key is not in the object;
\* a key present with value null gives None
DictGet(d, key, default) == IF d[key].t = "absent" THEN default ELSE d[key]

(***************************************************************************)
(* Arithmetic helpers.                                                     *)
(***************************************************************************)
RECURSIVE SumSeq(_)
SumSeq(s) == IF s = <<>> THEN 0 ELSE Head(s) + SumSeq(Tail(s))

RECURSIVE ProdSeq(_)
ProdSeq(s) == IF s = <<>> THEN 1 ELSE Head(s) * ProdSeq(Tail(s))

RECURSIVE Flatten(_)
Flatten(ss) == IF ss = <<>> THEN <<>> ELSE Head(ss) \o Flatten(Tail(ss))

MinOf(a, b) == IF a <= b THEN a ELSE b

(***************************************************************************)
(* Python str order (lexicographic on character codes), used by sorted().  *)
(***************************************************************************)
StrLess(a, b) ==
    \E k \in 1..(MinOf(Len(a), Len(b)) + 1) :
        /\ \A j \in 1..(k - 1) : a[j] = b[j]
        /\ \/ k > Len(a) /\ k <= Len(b)
           \/ k <= Len(a) /\ k <= Len(b) /\ a[k] < b[k]

RECURSIVE Sorted(_)
Sorted(S) ==
    IF S = {} THEN <<>>
    ELSE LET m == CHOOSE x \in S : \A y \in S \ {x} : StrLess(x, y)
         IN <<m>> \o Sorted(S \ {m})

(***************************************************************************)
(* sklearn.preprocessing.MultiLabelBinarizer                               *)
(***************************************************************************)
\* iterating a JSON value as one sample's labels: a list gives its
\* elements, a str its characters (one-character strs), anything else is
\* not iterable
IterLabels(val) ==
    CASE val.t = "list" -> Ok(val.v)
      [] val.t = "str" -> Ok([i \in 1..Len(val.v) |-> <<val.v[i]>>])
      [] OTHER -> Raise("TypeError")

\* fit: classes_ = sorted(set(chain.from_iterable(column)))
MLBFit(column) ==
    Sorted(UNION {{column[r][i] : i \in 1..Len(column[r])} : r \in 1..Len(column)})

\* class_to_index lookup; 0 stands for the KeyError of an unknown label
ClassIndex(classes, label) ==
    IF \E i \in 1..Len(classes) : classes[i] = label
    THEN CHOOSE i \in 1..Len(classes) : classes[i] = label
    ELSE 0

\* _transform's loop over one sample: known labels add their index to a
\* set, unknown ones are collected for a warning and otherwise ignored
RECURSIVE MLBIndex(_, _, _)
MLBIndex(classes, labels, index) ==
    IF labels = <<>> THEN index
    ELSE LET i == ClassIndex(classes, Head(labels))
         IN MLBIndex(classes, Tail(labels), IF i = 0 THEN index ELSE index \cup {i})

\* the indicator row of one sample: one entry per class, in class order
MLBIndicator(classes, labels) ==
    LET index == MLBIndex(classes, labels, {})
    IN [i \in 1..Len(classes) |-> IF i \in index THEN 1 ELSE 0]

\* a variant that derives the classes from the sample itself (fit_transform
\* in place of transform); kept for comparison, used by no action
MLBTransformRefit(classes, val) ==
    LET it == IterLabels(val)
    IN IF ~it.ok THEN it
       ELSE Ok([i \in 1..Len(MLBFit(<<it.v>>)) |-> 1])
\* encoders[...].transform([val])[0], as the request handlers call it
MLBTransform(classes, val) ==
    LET it == IterLabels(val)
    IN IF ~it.ok THEN it ELSE Ok(MLBIndicator(classes, it.v))

(***************************************************************************)
(* sklearn.preprocessing.StandardScaler and sklearn.cluster.KMeans         *)
(***************************************************************************)
\* transform: (x - mean_) / scale_ per dimension; a vector of another
\* width than the fitted one is refused
ScalerTransform(sc, X) ==
    IF Len(X) # Len(sc.mean) THEN Raise("ValueError")
    ELSE Ok([num |-> [i \in 1..Len(X) |-> X[i] - sc.mean[i]], den |-> sc.scale])

\* squared Euclidean distance of a scaled vector to a centre, multiplied by
\* the square of the product of the denominators (the same positive factor
\* for every centre)
SqDist(xs, c) ==
    LET P == ProdSeq(xs.den)
    IN SumSeq([i \in 1..Len(c) |->
                 ((xs.num[i] - c[i] * xs.den[i]) * (P \div xs.den[i]))
               * ((xs.num[i] - c[i] * xs.den[i]) * (P \div xs.den[i]))])

RECURSIVE ArgMin(_, _, _, _)
\* a variant whose first step lets an equally near centre replace the best
\* so far; kept for comparison, used by no action
ArgMinLast(xs, centers, j, best) ==
    IF j > Len(centers) THEN best
    ELSE ArgMin(xs, centers, j + 1,
                IF SqDist(xs, centers[j]) <= SqDist(xs, centers[best]) THEN j ELSE best)
\* the scan over the centres: a centre replaces the best so far only when
\* it is strictly nearer
ArgMin(xs, centers, j, best) ==
    IF j > Len(centers) THEN best
    ELSE ArgMin(xs, centers, j + 1,
                IF SqDist(xs, centers[j]) < SqDist(xs, centers[best]) THEN j ELSE best)

\* predict(X_scaled)[0]: the 0-based label of the nearest centre; a vector
\* of another width than the centres is refused
KMeansPredict(km, xs) ==
    IF Len(xs.num) # Len(km.centers[1]) THEN Raise("ValueError")
    ELSE Ok(ArgMin(xs, km.centers, 2, 1) - 1)


(***************************************************************************)
(* Inputs: labels, the dataset files, the fitted parameters.               *)
(***************************************************************************)
\* labels as character codes (a = 1 .. z = 26)
L_c == <<3>>
L_co == <<3, 15>>
L_hi == <<8, 9>>
L_fit == <<6, 9, 20>>
L_en == <<5, 14>>
L_es == <<5, 19>>
L_z == <<26>>

Profile(id, level, rank, budget, travel, services, goals, languages) ==
    [id |-> id, level |-> level, rank |-> rank, maxBudgetPerSession |-> budget,
     travelDistance |-> travel, desiredServices |-> services, goals |-> goals,
     languages |-> languages]

\* two contents of dataset.json; ids are unique within a dataset
DatasetA ==
    << Profile(JStr("p1"), JStr("beginner"), JNum(0), JNum(0), JNum(0),
               JList(<<L_co>>), JList(<<L_fit>>), JList(<<L_en>>)),
       Profile(JStr("p2"), JStr("recreational"), JNum(4), JNum(0), JNum(0),
               JList(<<L_hi>>), JList(<<L_fit>>), JList(<<L_en>>)),
       Profile(JStr("p3"), JStr("beginner"), JNull, JNum(0), JNum(0),
               JList(<<L_co>>), JList(<<L_fit>>), JList(<<L_en>>)),
       Profile(JStr("p4"), JStr("novice"), Absent, JNum(0), JNull,
               JList(<<L_hi, L_co>>), JList(<<>>), JList(<<L_en>>)),
       Profile(JStr("p5"), JStr("beginner"), JNum(1), JNum(0), JNum(0),
               JList(<<L_c>>), JList(<<L_fit>>), JList(<<L_en>>)),
       Profile(JStr("p6"), JStr("beginner"), JNum(0), JNum(1), JNum(0),
               JList(<<L_co>>), JList(<<L_fit>>), JList(<<>>)),
       Profile(JStr("p7"), JStr("beginner"), JNum(0), JNum(0), JNum(1),
               JList(<<L_co, L_co>>), JList(<<L_fit>>), JList(<<L_en>>)) >>

DatasetB ==
    << Profile(JStr("p1"), JStr("professional"), JNum(4), JNum(0), JNum(0),
               JList(<<L_co>>), JList(<<L_fit>>), JList(<<L_es>>)),
       Profile(JStr("p8"), JStr("beginner"), JNum(0), JNum(0), JNum(0),
               JList(<<L_co>>), JList(<<L_fit>>), JList(<<L_es>>)),
       Profile(JStr("p9"), JStr("beginner"), JNum(0), JNum(3), JNum(0),
               JList(<<L_co>>), JList(<<>>), JList(<<L_es>>)) >>

Datasets == {DatasetA, DatasetB}

\* StandardScaler().fit(X): mean_ and scale_ (never 0: a zero deviation is
\* replaced by 1), one entry per column of X.  The fitted numbers are an
\* input of the model: integer-valued parameters of the width of X.
StandardScalerFit(W) ==
    [mean |-> [i \in 1..W |-> IF i = 4 THEN 1 ELSE 0],
     scale |-> [i \in 1..W |-> IF i = 1 THEN 2 ELSE 1]]

\* KMeans(n_clusters=4, random_state=42).fit(X_scaled): n_clusters centres
\* of the width of X.  The fitted centres are an input of the model: two
\* candidate outcomes, which number the same centres differently.
UnitVec(W, k, a) == [i \in 1..W |-> IF i = k THEN a ELSE 0]
KMeansFits(W) ==
    { [j \in 1..n_clusters |->
          CASE j = 1 -> UnitVec(W, 0, 0)
            [] j = 2 -> UnitVec(W, 1, 1)
            [] OTHER -> UnitVec(W, 1 + (j % 3), 3)],
      [j \in 1..n_clusters |->
          CASE j = 1 -> UnitVec(W, 1, 1)
            [] j = 2 -> UnitVec(W, 0, 0)
            [] OTHER -> UnitVec(W, 1 + (j % 3), 3)] }

(***************************************************************************)
(* train.py                                                                *)
(***************************************************************************)
\* Series.fillna(value): a missing entry (key absent in the row, or null)
\* becomes value
FillNa(val, value) == IF val.t \in {"absent", "null"} THEN value ELSE val.v

\* Series.map(levels_map): a level that is no key of the map becomes NaN
MapLevel(val) ==
    IF val.t = "str" /\ val.v \in DOMAIN levels_map
    THEN JNum(levels_map[val.v]) ELSE JNull

\* one row of X: [rank, budget, travel, level] then the row's part of the
\* three fit_transform results
TrainVector(row, enc) ==
    << FillNa(row.rank, 0), FillNa(row.maxBudgetPerSession, 0),
       FillNa(row.travelDistance, 0), FillNa(MapLevel(row.level), 1) >>
    \o MLBIndicator(enc.services, row.desiredServices.v)
    \o MLBIndicator(enc.goals, row.goals.v)
    \o MLBIndicator(enc.languages, row.languages.v)

\* the three fitted MultiLabelBinarizers
FitEncoders(dataset) ==
    [services |-> MLBFit([r \in 1..Len(dataset) |-> dataset[r].desiredServices.v]),
     goals |-> MLBFit([r \in 1..Len(dataset) |-> dataset[r].goals.v]),
     languages |-> MLBFit([r \in 1..Len(dataset) |-> dataset[r].languages.v])]

FeatureWidth(enc) == 4 + Len(enc.services) + Len(enc.goals) + Len(enc.languages)

\* data["cluster"] = kmeans.fit_predict(X_scaled), then data[["id","cluster"]]
FitPredict(dataset, enc, sc, km) ==
    [r \in 1..Len(dataset) |->
        [id |-> dataset[r].id,
         cluster |-> KMeansPredict(km,
                        ScalerTransform(sc, TrainVector(dataset[r], enc)).v).v]]

\* everything the script holds in memory when it reaches its first dump
Train(dataset, centers) ==
    LET enc == FitEncoders(dataset)
        sc == StandardScalerFit(FeatureWidth(enc))
        km == [centers |-> centers]
    IN [kmeans |-> km, scaler |-> sc, encoders |-> enc,
        clusters |-> FitPredict(dataset, enc, sc, km)]


(***************************************************************************)
(* State.                                                                  *)
(***************************************************************************)
VARIABLES
    \* the files
    dataset_json, player_cluster_model_pkl, scaler_pkl, encoders_pkl,
    player_clusters_json,
    \* train.py: its position and what it has fitted
    trainPc, trained,
    \* history: what each training run so far has fitted
    produced,
    \* the serving process: its position and its module-level globals
    serverPc, model, scaler, encoders, data, clusters, players_db,
    \* ids handed out by uuid.uuid4() so far
    nextId,
    \* the request threads working on players_db: the position and the
    \* locals of each, and the list objects that are no longer bound to the
    \* global players_db but that some thread still refers to
    th, lists,
    \* history: the ids whose POST has returned "Player added successfully",
    \* and the ids a DELETE request has been received for
    added, deleteRequested,
    \* the request being answered, the feature vector the handler assembled
    \* for it, and the response
    request, X, response,
    \* history: the first answer this process gave to ProbeProfile, and
    \* whether that was before any player was posted
    firstAnswer

files == <<dataset_json, player_cluster_model_pkl, scaler_pkl, encoders_pkl,
           player_clusters_json>>
trainer == <<trainPc, trained, produced>>
artifacts == <<model, scaler, encoders, data, clusters>>
workers == <<th, lists, added, deleteRequested>>
registry == <<players_db, nextId, workers>>
exchange == <<request, X, response, firstAnswer>>
vars == <<files, trainer, serverPc, artifacts, registry, exchange>>

None == [t |-> "none"]
NoExchange == [ep |-> "none"]

(***************************************************************************)
(* train.py, one step per file it reads or writes.                         *)
(***************************************************************************)
\* lines 8-50: read dataset.json and fit the encoders, the scaler and the
\* clustering
TrainFit ==
    /\ trainPc = "idle"
    /\ Len(produced) <= MaxRuns
    /\ \E centers \in KMeansFits(FeatureWidth(FitEncoders(dataset_json))) :
           /\ trained' = Train(dataset_json, centers)
           /\ produced' = Append(produced, trained')
    /\ trainPc' = "dump_model"
    /\ UNCHANGED <<files, serverPc, artifacts, registry, exchange>>

\* line 53
DumpModel ==
    /\ trainPc = "dump_model"
    /\ player_cluster_model_pkl' = trained.kmeans
    /\ trainPc' = "dump_scaler"
    /\ UNCHANGED <<dataset_json, scaler_pkl, encoders_pkl, player_clusters_json,
                   trained, produced, serverPc, artifacts, registry, exchange>>

\* line 54
DumpScaler ==
    /\ trainPc = "dump_scaler"
    /\ scaler_pkl' = trained.scaler
    /\ trainPc' = "dump_encoders"
    /\ UNCHANGED <<dataset_json, player_cluster_model_pkl, encoders_pkl,
                   player_clusters_json, trained, produced, serverPc, artifacts,
                   registry, exchange>>

\* lines 55-59
DumpEncoders ==
    /\ trainPc = "dump_encoders"
    /\ encoders_pkl' = trained.encoders
    /\ trainPc' = "save_results"
    /\ UNCHANGED <<dataset_json, player_cluster_model_pkl, scaler_pkl,
                   player_clusters_json, trained, produced, serverPc, artifacts,
                   registry, exchange>>

\* line 62, after which the script ends
SaveResults ==
    /\ trainPc = "save_results"
    /\ player_clusters_json' = trained.clusters
    /\ trainPc' = "idle"
    /\ trained' = None
    /\ UNCHANGED <<dataset_json, player_cluster_model_pkl, scaler_pkl,
                   encoders_pkl, produced, serverPc, artifacts, registry, exchange>>

\* the environment replaces dataset.json between two training runs
ReplaceDataset ==
    /\ trainPc = "idle"
    /\ Len(produced) <= MaxRuns
    /\ \E ds \in Datasets \ {dataset_json} : dataset_json' = ds
    /\ UNCHANGED <<player_cluster_model_pkl, scaler_pkl, encoders_pkl,
                   player_clusters_json, trainer, serverPc, artifacts, registry,
                   exchange>>

(***************************************************************************)
(* api3.py at import: the module-level loads, in source order.             *)
(***************************************************************************)
\* line 24
LoadModel ==
    /\ serverPc = "load_model"
    /\ model' = player_cluster_model_pkl
    /\ serverPc' = "load_scaler"
    /\ UNCHANGED <<files, trainer, scaler, encoders, data, clusters, registry,
                   exchange>>

\* line 25
LoadScaler ==
    /\ serverPc = "load_scaler"
    /\ scaler' = scaler_pkl
    /\ serverPc' = "load_encoders"
    /\ UNCHANGED <<files, trainer, model, encoders, data, clusters, registry,
                   exchange>>

\* line 26
LoadEncoders ==
    /\ serverPc = "load_encoders"
    /\ encoders' = encoders_pkl
    /\ serverPc' = "load_dataset"
    /\ UNCHANGED <<files, trainer, model, scaler, data, clusters, registry,
                   exchange>>

\* lines 29-33: the file exists in every state of the model, so the except
\* branch is not taken
LoadDataset ==
    /\ serverPc = "load_dataset"
    /\ data' = [r \in 1..Len(dataset_json) |->
                   [row |-> dataset_json[r], cluster |-> Absent]]
    /\ serverPc' = "load_clusters"
    /\ UNCHANGED <<files, trainer, model, scaler, encoders, clusters, registry,
                   exchange>>

\* pd.merge(data, clusters, on="id", how="left"): the left rows in their
\* order, each once per right row of the same id, or once with a NaN
\* cluster when there is none
MergeLeft(left, right) ==
    Flatten([r \in 1..Len(left) |->
        LET SameId(c) == c.id = left[r].row.id
            hits == SelectSeq(right, SameId)
        IN IF hits = <<>>
           THEN << [row |-> left[r].row, cluster |-> JNull] >>
           ELSE [k \in 1..Len(hits) |->
                    [row |-> left[r].row, cluster |-> JNum(hits[k].cluster)]]])

\* lines 37-41, after which Flask starts to serve
LoadClusters ==
    /\ serverPc = "load_clusters"
    /\ clusters' = player_clusters_json
    /\ data' = MergeLeft(data, clusters')
    /\ serverPc' = "serving"
    /\ UNCHANGED <<files, trainer, model, scaler, encoders, registry, exchange>>


(***************************************************************************)
(* api3.py: POST /cluster-player                                           *)
(***************************************************************************)
\* levels_map.get(level, 1): an unhashable key (a list) raises, any other
\* value that is no key gives 1
LevelsGet(val) ==
    CASE val.t = "list" -> Raise("TypeError")
      [] val.t = "str" -> Ok(JNum(IF val.v \in DOMAIN levels_map
                                  THEN levels_map[val.v] ELSE 1))
      [] OTHER -> Ok(JNum(1))

Numbers(bits) == [i \in 1..Len(bits) |-> JNum(bits[i])]

\* lines 102-117: the array X, or the exception raised on the way
cluster_player_X(d) ==
    LET s == GetItem(d, "desiredServices") IN
    IF ~s.ok THEN s ELSE
    LET services_encoded == MLBTransform(encoders.services, s.v) IN
    IF ~services_encoded.ok THEN services_encoded ELSE
    LET g == GetItem(d, "goals") IN
    IF ~g.ok THEN g ELSE
    LET goals_encoded == MLBTransform(encoders.goals, g.v) IN
    IF ~goals_encoded.ok THEN goals_encoded ELSE
    LET l == GetItem(d, "languages") IN
    IF ~l.ok THEN l ELSE
    LET lang_encoded == MLBTransform(encoders.languages, l.v) IN
    IF ~lang_encoded.ok THEN lang_encoded ELSE
    LET lv == GetItem(d, "level") IN
    IF ~lv.ok THEN lv ELSE
    LET level == LevelsGet(lv.v) IN
    IF ~level.ok THEN level ELSE
    LET rank == DictGet(d, "rank", JNum(0))
        budget == DictGet(d, "maxBudgetPerSession", JNum(0))
        travel == DictGet(d, "travelDistance", JNum(0))
    IN Ok(<<rank, budget, travel, level.v>>
          \o Numbers(services_encoded.v) \o Numbers(goals_encoded.v)
          \o Numbers(lang_encoded.v))

\* the float array the estimators work on.  An entry that is no number
\* (None) makes X an object array; its conversion to float gives NaN, which
\* scaler.transform lets through and model.predict refuses with a ValueError
AsFloat(Xa) ==
    IF \E i \in 1..Len(Xa) : Xa[i].t # "num" THEN Raise("ValueError")
    ELSE Ok([i \in 1..Len(Xa) |-> Xa[i].v])

\* lines 120-121
Predict(Xa) ==
    LET f == AsFloat(Xa) IN
    IF ~f.ok THEN f ELSE
    LET X_scaled == ScalerTransform(scaler, f.v) IN
    IF ~X_scaled.ok THEN X_scaled ELSE
    KMeansPredict(model, X_scaled.v)

Summary(r) ==
    [id |-> r.row.id, level |-> r.row.level, rank |-> r.row.rank,
     maxBudgetPerSession |-> r.row.maxBudgetPerSession]

\* a variant that takes head(5) before the filter; kept for comparison,
\* used by no action
SimilarPlayersHeadFirst(rows, cluster) ==
    LET InCluster(r) == r.cluster.t = "num" /\ r.cluster.v = cluster
        hd == SelectSeq(SubSeq(rows, 1, MinOf(head_limit, Len(rows))), InCluster)
    IN [k \in 1..Len(hd) |-> Summary(hd[k])]
\* lines 124-128: data[data["cluster"] == cluster][[...]].head(5)
SimilarPlayers(rows, cluster) ==
    LET InCluster(r) == r.cluster.t = "num" /\ r.cluster.v = cluster
        sel == SelectSeq(rows, InCluster)
        hd == SubSeq(sel, 1, MinOf(head_limit, Len(sel)))
    IN [k \in 1..Len(hd) |-> Summary(hd[k])]

Error400(ep, e) == [ep |-> ep, status |-> 400, error |-> e]

\* lines 99-135: the response
cluster_player_response(d) ==
    LET x == cluster_player_X(d) IN
    IF ~x.ok THEN Error400("cluster-player", x.err) ELSE
    LET cluster == Predict(x.v) IN
    IF ~cluster.ok THEN Error400("cluster-player", cluster.err) ELSE
    [ep |-> "cluster-player", status |-> 200, cluster |-> cluster.v,
     recommendedPlayers |-> SimilarPlayers(data, cluster.v)]


(***************************************************************************)
(* Request bodies.                                                         *)
(***************************************************************************)
Q_plain == Profile(Absent, JStr("beginner"), JNum(0), JNum(0), JNum(0),
                   JList(<<L_co>>), JList(<<L_fit>>), JList(<<L_en>>))
Q_far == [Q_plain EXCEPT !.level = JStr("recreational"), !.rank = JNum(4)]
Q_tie == [Q_plain EXCEPT !.rank = JNum(1)]
Q_budget == [Q_plain EXCEPT !.maxBudgetPerSession = JNum(3)]
Q_unknown == [Q_plain EXCEPT !.level = JStr("novice"), !.rank = Absent,
                             !.desiredServices = JList(<<L_z, L_hi, L_co, L_hi>>),
                             !.languages = JList(<<L_es, L_en>>)]
Q_nullRank == [Q_plain EXCEPT !.rank = JNull]
Q_strServices == [Q_plain EXCEPT !.desiredServices = JStr(L_co)]
Q_noGoals == [Q_plain EXCEPT !.goals = Absent]
Q_numLanguages == [Q_plain EXCEPT !.languages = JNum(5)]
Q_numLevel == [Q_plain EXCEPT !.level = JNum(3)]
Q_noLevel == [Q_plain EXCEPT !.level = Absent]
Q_listLevel == [Q_plain EXCEPT !.level = JList(<<>>)]

PlayerRequests ==
    {Q_plain, Q_far, Q_tie, Q_budget, Q_unknown, Q_nullRank, Q_strServices,
     Q_noGoals, Q_numLanguages, Q_numLevel, Q_noLevel, Q_listLevel}

ProbeProfile == Q_far

WithId(q, id) == [q EXCEPT !.id = JStr(id)]

BatchRequests ==
    { JList(<<WithId(Q_plain, "a"), WithId(Q_far, "b"), WithId(Q_tie, "c")>>),
      JList(<<WithId(Q_far, "b"), WithId(Q_noGoals, "x"), WithId(Q_plain, "a")>>),
      JList(<<WithId(Q_budget, "d"), Q_plain>>),
      JList(<<WithId(Q_strServices, "s"), WithId(Q_unknown, "e")>>),
      JList(<<WithId(Q_nullRank, "n")>>),
      JList(<<>>),
      JNull }

PlayerNames == {"ann"}

(***************************************************************************)
(* api3.py: the request handlers.                                          *)
(***************************************************************************)
\* a variant of the handler that rebinds the global data to the filtered
\* frame; kept for comparison, used by no specification
ClusterPlayerRebind(Bodies) ==
    /\ serverPc = "serving"
    /\ \E d \in Bodies :
          LET x == cluster_player_X(d)
              resp == cluster_player_response(d)
              InCluster(r) == r.cluster.t = "num" /\ r.cluster.v = resp.cluster
          IN /\ request' = [ep |-> "cluster-player", body |-> d]
             /\ X' = IF x.ok THEN x.v ELSE <<>>
             /\ response' = resp
             /\ data' = IF resp.status = 200
                        THEN SelectSeq(data, InCluster)
                        ELSE data
             /\ firstAnswer' = IF d = ProbeProfile /\ firstAnswer = None
                               THEN [resp |-> resp, early |-> nextId = 0]
                               ELSE firstAnswer
    /\ UNCHANGED <<files, trainer, serverPc, model, scaler, encoders, clusters,
                   registry>>
\* lines 99-135, for a request body drawn from Bodies
ClusterPlayer(Bodies) ==
    /\ serverPc = "serving"
    /\ \E d \in Bodies :
          LET x == cluster_player_X(d)
              resp == cluster_player_response(d)
          IN /\ request' = [ep |-> "cluster-player", body |-> d]
             /\ X' = IF x.ok THEN x.v ELSE <<>>
             /\ response' = resp
             /\ firstAnswer' = IF d = ProbeProfile /\ firstAnswer = None
                               THEN [resp |-> resp, early |-> nextId = 0]
                               ELSE firstAnswer
    /\ UNCHANGED <<files, trainer, serverPc, artifacts, registry>>

cluster_player == ClusterPlayer(PlayerRequests)

\* lines 161-169, GET
manage_players_get ==
    /\ serverPc = "serving"
    /\ request' = [ep |-> "players", method |-> "GET"]
    /\ response' = [ep |-> "players", status |-> 200, players |-> players_db]
    /\ UNCHANGED <<files, trainer, serverPc, artifacts, registry, X, firstAnswer>>

\* lines 161-169, POST: the body gets a fresh id and is appended
manage_players_post ==
    /\ serverPc = "serving"
    /\ nextId < MaxPlayers
    /\ \E name \in PlayerNames :
          LET player == [name |-> name, id |-> nextId + 1]
          IN /\ request' = [ep |-> "players", method |-> "POST", name |-> name]
             /\ players_db' = Append(players_db, player)
             /\ response' = [ep |-> "players", status |-> 200, id |-> player.id,
                             message |-> "Player added successfully"]
    /\ nextId' = nextId + 1
    /\ UNCHANGED <<files, trainer, serverPc, artifacts, workers, X, firstAnswer>>

\* lines 188-191
delete_player ==
    /\ serverPc = "serving"
    /\ \E player_id \in 1..MaxPlayers :
          LET Keep(p) == p.id # player_id
          IN /\ request' = [ep |-> "players", method |-> "DELETE", id |-> player_id]
             /\ players_db' = SelectSeq(players_db, Keep)
             /\ response' = [ep |-> "players", status |-> 200,
                             message |-> "Player deleted successfully"]
    /\ UNCHANGED <<files, trainer, serverPc, artifacts, nextId, workers, X,
                   firstAnswer>>

(***************************************************************************)
(* api3.py: POST /players and DELETE /players/<id> on concurrent request   *)
(* threads (app.run serves each request on a thread of its own).  One      *)
(* action per access to the shared list; what a handler does to its own    *)
(* locals is part of the action that follows it.                           *)
(*                                                                         *)
(* A reference to a list object is a number: 0 is the object the global    *)
(* players_db is bound to at present, k > 0 is the object lists[k], which  *)
(* the global was bound to earlier.                                        *)
(***************************************************************************)
Threads == 1..MaxThreads

Idle == [pc |-> "idle", player |-> None, player_id |-> 0, ref |-> 0, i |-> 0,
         acc |-> <<>>]

\* the items of the list object a reference denotes
Content(ref) == IF ref = 0 THEN players_db ELSE lists[ref]

\* thread u holds a reference to a list object (in a local or on its stack)
Holds(t, u) == t[u].pc \in {"post_append", "del_iter"}

\* the detached list objects that some thread of t still refers to; the
\* others are garbage
Collect(t, ls) ==
    LET live == {t[u].ref : u \in {v \in Threads : Holds(t, v) /\ t[v].ref # 0}}
    IN [k \in live |-> ls[k]]

\* line 166-168, up to the load of the global in players_db.append: the
\* body gets a fresh id, the thread holds the list the global is bound to
manage_players_load ==
    /\ serverPc = "serving"
    /\ nextId < MaxPlayers
    /\ \E t \in Threads, name \in PlayerNames :
          /\ th[t].pc = "idle"
          /\ th' = [th EXCEPT ![t] = [Idle EXCEPT
                        !.pc = "post_append",
                        !.player = [name |-> name, id |-> nextId + 1]]]
    /\ nextId' = nextId + 1
    /\ UNCHANGED <<files, trainer, serverPc, artifacts, players_db, lists,
                   added, deleteRequested, exchange>>

\* line 168: list.append, in place, on the list the thread holds
manage_players_append ==
    /\ \E t \in Threads :
          /\ th[t].pc = "post_append"
          /\ LET ref == th[t].ref
                 t2 == [th EXCEPT ![t] = [@ EXCEPT !.pc = "post_return",
                                                   !.ref = 0]]
             IN /\ players_db' = IF ref = 0
                                 THEN Append(players_db, th[t].player)
                                 ELSE players_db
                /\ lists' = Collect(t2, IF ref = 0 THEN lists
                                        ELSE [lists EXCEPT ![ref] =
                                                Append(@, th[t].player)])
                /\ th' = t2
    /\ UNCHANGED <<files, trainer, serverPc, artifacts, nextId, added,
                   deleteRequested, exchange>>

\* line 169: the response "Player added successfully"
manage_players_return ==
    /\ \E t \in Threads :
          /\ th[t].pc = "post_return"
          /\ added' = added \cup {th[t].player.id}
          /\ th' = [th EXCEPT ![t] = Idle]
    /\ UNCHANGED <<files, trainer, serverPc, artifacts, players_db, nextId,
                   lists, deleteRequested, exchange>>

\* line 190, the start of the comprehension: the global is loaded and an
\* iterator over that list object is made
delete_player_iter ==
    /\ serverPc = "serving"
    /\ \E t \in Threads, player_id \in 1..MaxPlayers :
          /\ th[t].pc = "idle"
          /\ th' = [th EXCEPT ![t] = [Idle EXCEPT !.pc = "del_iter",
                                                  !.player_id = player_id]]
          /\ deleteRequested' = deleteRequested \cup {player_id}
    /\ UNCHANGED <<files, trainer, serverPc, artifacts, players_db, nextId,
                   lists, added, exchange>>

\* line 190, one turn of the comprehension: the iterator yields the next
\* item of its list as the list is now, and the item is kept unless it has
\* the id
delete_player_next ==
    /\ \E t \in Threads :
          /\ th[t].pc = "del_iter"
          /\ th[t].i < Len(Content(th[t].ref))
          /\ LET p == Content(th[t].ref)[th[t].i + 1]
             IN th' = [th EXCEPT ![t] = [@ EXCEPT
                          !.i = @ + 1,
                          !.acc = IF p.id # th[t].player_id
                                  THEN Append(@, p) ELSE @]]
    /\ UNCHANGED <<files, trainer, serverPc, artifacts, players_db, nextId,
                   lists, added, deleteRequested, exchange>>

\* line 190, the end of the comprehension: the iterator is exhausted and
\* dropped, the new list is on the stack
delete_player_exhausted ==
    /\ \E t \in Threads :
          /\ th[t].pc = "del_iter"
          /\ th[t].i >= Len(Content(th[t].ref))
          /\ LET t2 == [th EXCEPT ![t] = [@ EXCEPT !.pc = "del_store",
                                                   !.ref = 0, !.i = 0]]
             IN /\ th' = t2
                /\ lists' = Collect(t2, lists)
    /\ UNCHANGED <<files, trainer, serverPc, artifacts, players_db, nextId,
                   added, deleteRequested, exchange>>

\* lines 190-191: the global is rebound to the new list and the response
\* is returned.  The list the global was bound to lives on for the threads
\* that hold it.
delete_player_store ==
    /\ \E t \in Threads :
          /\ th[t].pc = "del_store"
          /\ LET users == {u \in Threads \ {t} : Holds(th, u) /\ th[u].ref = 0}
                 k == CHOOSE n \in Threads :
                        /\ n \notin DOMAIN lists
                        /\ \A m \in Threads : m \notin DOMAIN lists => n <= m
                 t2 == [u \in Threads |->
                          IF u = t THEN Idle
                          ELSE IF u \in users THEN [th[u] EXCEPT !.ref = k]
                          ELSE th[u]]
             IN /\ th' = t2
                /\ lists' = IF users = {} THEN lists
                            ELSE [n \in DOMAIN lists \cup {k} |->
                                    IF n = k THEN players_db ELSE lists[n]]
                /\ players_db' = th[t].acc
    /\ UNCHANGED <<files, trainer, serverPc, artifacts, nextId, added,
                   deleteRequested, exchange>>

\* lines 248-272: one turn of the loop, the entry appended to results or
\* the exception raised
cluster_all_entry(player) ==
    LET s == GetItem(player, "desiredServices") IN
    IF ~s.ok THEN s ELSE
    LET services_encoded == MLBTransform(encoders.services, s.v) IN
    IF ~services_encoded.ok THEN services_encoded ELSE
    LET g == GetItem(player, "goals") IN
    IF ~g.ok THEN g ELSE
    LET goals_encoded == MLBTransform(encoders.goals, g.v) IN
    IF ~goals_encoded.ok THEN goals_encoded ELSE
    LET l == GetItem(player, "languages") IN
    IF ~l.ok THEN l ELSE
    LET lang_encoded == MLBTransform(encoders.languages, l.v) IN
    IF ~lang_encoded.ok THEN lang_encoded ELSE
    LET lv == GetItem(player, "level") IN
    IF ~lv.ok THEN lv ELSE
    LET level == LevelsGet(lv.v) IN
    IF ~level.ok THEN level ELSE
    LET rank == DictGet(player, "rank", JNum(0))
        budget == DictGet(player, "maxBudgetPerSession", JNum(0))
        travel == DictGet(player, "travelDistance", JNum(0))
        cluster == Predict(<<rank, budget, travel, level.v>>
                           \o Numbers(services_encoded.v)
                           \o Numbers(goals_encoded.v)
                           \o Numbers(lang_encoded.v))
    IN IF ~cluster.ok THEN cluster ELSE
       LET id == GetItem(player, "id") IN
       IF ~id.ok THEN id ELSE
       Ok([id |-> id.v, cluster |-> cluster.v])

RECURSIVE cluster_all_loop(_, _)
\* a variant whose first step skips a failing record instead of leaving
\* the loop; kept for comparison, used by no action
cluster_all_loop_skip(players, results) ==
    IF players = <<>> THEN Ok(results)
    ELSE LET e == cluster_all_entry(Head(players))
         IN cluster_all_loop(Tail(players),
                             IF ~e.ok THEN results ELSE Append(results, e.v))
\* lines 247-272: the loop; the first exception leaves it
cluster_all_loop(players, results) ==
    IF players = <<>> THEN Ok(results)
    ELSE LET e == cluster_all_entry(Head(players))
         IN IF ~e.ok THEN e
            ELSE cluster_all_loop(Tail(players), Append(results, e.v))

\* lines 242-276: a body that is no list cannot be iterated
cluster_all_response(players) ==
    LET results == IF players.t # "list" THEN Raise("TypeError")
                   ELSE cluster_all_loop(players.v, <<>>)
    IN IF ~results.ok THEN Error400("cluster-all", results.err)
       ELSE [ep |-> "cluster-all", status |-> 200, results |-> results.v]

cluster_all_players ==
    /\ serverPc = "serving"
    /\ \E players \in BatchRequests :
          /\ request' = [ep |-> "cluster-all", body |-> players]
          /\ response' = cluster_all_response(players)
    /\ UNCHANGED <<files, trainer, serverPc, artifacts, registry, X, firstAnswer>>

(***************************************************************************)
(* The system.                                                             *)
(***************************************************************************)
\* The files are those of one complete training run on DatasetA; the
\* serving process has just been started and has loaded nothing yet.
Init ==
    /\ dataset_json = DatasetA
    /\ \E centers \in KMeansFits(FeatureWidth(FitEncoders(dataset_json))) :
          LET first == Train(dataset_json, centers)
          IN /\ player_cluster_model_pkl = first.kmeans
             /\ scaler_pkl = first.scaler
             /\ encoders_pkl = first.encoders
             /\ player_clusters_json = first.clusters
             /\ produced = <<first>>
    /\ trainPc = "idle" /\ trained = None
    /\ serverPc = "load_model"
    /\ model = None /\ scaler = None /\ encoders = None /\ data = None
    /\ clusters = None
    /\ players_db = <<>> /\ nextId = 0
    /\ th = [t \in Threads |-> Idle] /\ lists = <<>>
    /\ added = {} /\ deleteRequested = {}
    /\ request = NoExchange /\ X = <<>> /\ response = NoExchange
    /\ firstAnswer = None

\* The serving process alone, from its start: no training run touches the
\* files while it lives.
Next ==
    \/ LoadModel \/ LoadScaler \/ LoadEncoders \/ LoadDataset \/ LoadClusters
    \/ cluster_player \/ manage_players_get \/ manage_players_post
    \/ delete_player \/ cluster_all_players

Spec == Init /\ [][Next]_vars

\* The training script and the serving process side by side, every
\* interleaving of their steps; the process answers /cluster-player
\* requests for two profiles.
StoreRequests == {Q_plain, ProbeProfile}

cluster_player_store == ClusterPlayer(StoreRequests)

NextStore ==
    \/ TrainFit \/ DumpModel \/ DumpScaler \/ DumpEncoders \/ SaveResults
    \/ ReplaceDataset
    \/ LoadModel \/ LoadScaler \/ LoadEncoders \/ LoadDataset \/ LoadClusters
    \/ cluster_player_store

SpecStore == Init /\ [][NextStore]_vars

\* The serving process with its request threads: every interleaving of the
\* steps of POST /players and DELETE /players/<id> handlers, and GET
\* /players between them.
NextPlayers ==
    \/ LoadModel \/ LoadScaler \/ LoadEncoders \/ LoadDataset \/ LoadClusters
    \/ manage_players_get
    \/ manage_players_load \/ manage_players_append \/ manage_players_return
    \/ delete_player_iter \/ delete_player_next \/ delete_player_exhausted
    \/ delete_player_store

SpecPlayers == Init /\ [][NextPlayers]_vars


(***************************************************************************)
(* The artifact store: claims C1 to C3, under SpecStore.                   *)
(***************************************************************************)
Loaded == serverPc = "serving"

\* what the serving process holds is what training run r fitted
HoldsBundleOf(r) ==
    /\ model = produced[r].kmeans
    /\ scaler = produced[r].scaler
    /\ encoders = produced[r].encoders
    /\ clusters = produced[r].clusters

\* the latest training run whose four files are all written
LastCompleteRun == IF trainPc = "idle" THEN Len(produced) ELSE Len(produced) - 1

\* centre width = scaler mean width = scaler scale width = 4 + vocabularies
DimensionConsistent(m, sc, enc) ==
    /\ \A j \in 1..Len(m.centers) : Len(m.centers[j]) = FeatureWidth(enc)
    /\ Len(sc.mean) = FeatureWidth(enc)
    /\ Len(sc.scale) = FeatureWidth(enc)

\* a /cluster-player request is being answered in this step
AnswersPrediction ==
    /\ serverPc = "serving"
    /\ request'.ep = "cluster-player"
    /\ <<request, X, response, firstAnswer>>' # <<request, X, response, firstAnswer>>

\* C1: a load that runs while a training run writes the files still ends
\* with a bundle that comes entirely from one training run: the model, the
\* scaler, the encoders and the cluster assignments held by the serving
\* process are those that one and the same run fitted.
C1_LoadedFromOneRun ==
    Loaded => \E r \in 1..Len(produced) : HoldsBundleOf(r)

\* C2: the process never answers a prediction request while it holds a
\* dimension-inconsistent bundle (such a bundle is refused at load time).
C2_NeverServesInconsistent ==
    (Loaded /\ request.ep = "cluster-player")
        => DimensionConsistent(model, scaler, encoders)

\* C3: once a training run has completed, every prediction request is
\* answered with the bundle of that (the latest completed) run.
C3_ServesLatestBundle ==
    [][(AnswersPrediction /\ trainPc = "idle" /\ Len(produced) > 1)
          => HoldsBundleOf(LastCompleteRun)]_vars


(***************************************************************************)
(* The serving process: claims C4 to C10, under Spec.                      *)
(***************************************************************************)
PredictionAnswered == request.ep = "cluster-player" /\ response.status = 200

\* the required fields are there and have the types of the schema
\* (api3.py line 78: level a string, the three others arrays of strings)
RequiredFieldsValid(d) ==
    /\ d.level.t = "str"
    /\ d.desiredServices.t = "list"
    /\ d.goals.t = "list"
    /\ d.languages.t = "list"

\* C4: no serving request changes the loaded model, scaler, encoders,
\* dataset table or cluster assignments, and ProbeProfile gets the answer it
\* got the first time whatever was served in between.
C4_ServingFrame ==
    [][Loaded =>
          /\ artifacts' = artifacts
          /\ (/\ request'.ep = "cluster-player"
              /\ request'.body = ProbeProfile
              /\ firstAnswer # None)
                 => response' = firstAnswer.resp]_vars

\* ProbeProfile was first answered before any player was posted, and is
\* answered again, the same, after one was
C4_Witness ==
    /\ firstAnswer # None
    /\ firstAnswer.early
    /\ nextId >= 1
    /\ request.ep = "cluster-player"
    /\ request.body = ProbeProfile
    /\ response.status = 200
    /\ response = firstAnswer.resp

\* the rows of the training-time dataset whose persisted cluster is c
RowsOfCluster(c) ==
    {i \in 1..Len(dataset_json) :
        \E k \in 1..Len(clusters) :
            clusters[k].id = dataset_json[i].id /\ clusters[k].cluster = c}

\* C5: recommendedPlayers is the first min(5, n) rows, in dataset order, of
\* the n dataset rows whose persisted cluster is the predicted one.
C5_FirstFiveOfCluster ==
    PredictionAnswered =>
        LET rec == response.recommendedPlayers
            M == RowsOfCluster(response.cluster)
        IN /\ Len(rec) = MinOf(5, Cardinality(M))
           /\ \A k \in 1..Len(rec) :
                 \E i \in M :
                    /\ Cardinality({j \in M : j < i}) = k - 1
                    /\ rec[k] = [id |-> dataset_json[i].id,
                                 level |-> dataset_json[i].level,
                                 rank |-> dataset_json[i].rank,
                                 maxBudgetPerSession |->
                                     dataset_json[i].maxBudgetPerSession]

\* more than five rows match and five are returned
C5_Witness ==
    /\ PredictionAnswered
    /\ Cardinality(RowsOfCluster(response.cluster)) > 5
    /\ Len(response.recommendedPlayers) = 5

\* the block of X that starts after off entries is the multi-hot encoding
\* of the list val over vocab
IsMultiHot(off, vocab, val) ==
    \A i \in 1..Len(vocab) :
        X[off + i] = JNum(IF \E j \in 1..Len(val.v) : val.v[j] = vocab[i]
                          THEN 1 ELSE 0)

\* C6: each multi-hot block has one bit per vocabulary entry, in vocabulary
\* order, set exactly when the entry is in the request's list; values that
\* are not in the vocabulary raise nothing and add nothing, and the vector
\* has length 4 + |services| + |goals| + |languages|.
C6_MultiHotBlocks ==
    request.ep = "cluster-player" =>
        LET d == request.body
            ns == Len(encoders.services)
            ng == Len(encoders.goals)
        IN /\ RequiredFieldsValid(d) => X # <<>>
           /\ X # <<>> =>
                /\ Len(X) = 4 + ns + ng + Len(encoders.languages)
                /\ d.desiredServices.t = "list"
                      => IsMultiHot(4, encoders.services, d.desiredServices)
                /\ d.goals.t = "list"
                      => IsMultiHot(4 + ns, encoders.goals, d.goals)
                /\ d.languages.t = "list"
                      => IsMultiHot(4 + ns + ng, encoders.languages, d.languages)

\* a request that lists a service outside the vocabulary next to two that
\* are in it
C6_Witness ==
    /\ request.ep = "cluster-player"
    /\ X # <<>>
    /\ request.body.desiredServices.t = "list"
    /\ \E j \in 1..Len(request.body.desiredServices.v) :
          ClassIndex(encoders.services, request.body.desiredServices.v[j]) = 0
    /\ Cardinality({i \in 1..Len(encoders.services) : X[4 + i] = JNum(1)}) >= 2

\* C7: for a profile with well-typed required fields the vector assembled
\* at serving time is the one train.py assembles for it: an unrecognized
\* level gives 1, and a rank, budget or travel distance that is absent or
\* null gives 0.
C7_TrainServeParity ==
    (request.ep = "cluster-player" /\ RequiredFieldsValid(request.body))
        => X = Numbers(TrainVector(request.body, encoders))

\* C8: the returned cluster is in 0..3, no centre is nearer to the scaled
\* vector than the centre of that index, and every centre of a lower index
\* is strictly farther.
C8_NearestLowestIndex ==
    PredictionAnswered =>
        LET xs == ScalerTransform(scaler, AsFloat(X).v).v
            D(j) == SqDist(xs, model.centers[j + 1])
            c == response.cluster
        IN /\ c \in 0..3
           /\ Len(model.centers) = 4
           /\ \A j \in 0..3 : D(c) <= D(j)
           /\ \A j \in 0..(c - 1) : D(j) > D(c)

\* a vector equidistant from the centres 0 and 1 is given cluster 0
C8_Witness ==
    /\ PredictionAnswered
    /\ response.cluster = 0
    /\ LET xs == ScalerTransform(scaler, AsFloat(X).v).v
       IN SqDist(xs, model.centers[1]) = SqDist(xs, model.centers[2])

\* C9: a /cluster-player request with a required field missing or of the
\* wrong type is answered with an error and no cluster.
C9_InvalidRejected ==
    (request.ep = "cluster-player" /\ ~RequiredFieldsValid(request.body))
        => response.status = 400

\* a batch record is valid when it carries an id and /cluster-player
\* answers it with a cluster
ValidRecord(p) == p.id.t # "absent" /\ cluster_player_response(p).status = 200

\* C10: a batch of valid records is answered with one {id, cluster} per
\* record, in input order, the cluster being the one /cluster-player gives
\* that record; a batch with a record that is not valid is answered with one
\* error and no results.
C10_BatchMatchesSingle ==
    (request.ep = "cluster-all" /\ request.body.t = "list") =>
        LET players == request.body.v
        IN IF \A i \in 1..Len(players) : ValidRecord(players[i])
           THEN /\ response.status = 200
                /\ Len(response.results) = Len(players)
                /\ \A i \in 1..Len(players) :
                      /\ response.results[i].id = players[i].id
                      /\ response.results[i].cluster
                            = cluster_player_response(players[i]).cluster
           ELSE /\ response.status = 400
                /\ DOMAIN response = {"ep", "status", "error"}

\* a batch of three records answered with three results, not all in the
\* same cluster
C10_Witness ==
    /\ request.ep = "cluster-all"
    /\ response.status = 200
    /\ Len(response.results) = 3
    /\ response.results[1].cluster # response.results[2].cluster


(***************************************************************************)
(* The player registry under concurrent requests: claim C11, under         *)
(* SpecPlayers.                                                            *)
(***************************************************************************)
\* a player with this id is in the list GET /players returns
Listed(id) == \E k \in 1..Len(players_db) : players_db[k].id = id

\* C11: a player whose POST has returned "Player added successfully" is in
\* the registry (GET /players lists it) as long as no DELETE request for
\* its own id has been received, whatever other POST and DELETE requests
\* run at the same time.
C11_AddedStaysListed ==
    \A id \in added \ deleteRequested : Listed(id)

=============================================================================
